---- MODULE Spec2Model ----
(***************************************************************************)
(* Model of src/src/services/ai-agent-client.ts: the RateLimiter, AICache  *)
(* and AIService classes (request gateway) and the AIAgentClient class     *)
(* (token ledger and WebSocket connector).  Times are in milliseconds.     *)
(***************************************************************************)
EXTENDS Integers, Sequences, FiniteSets, Bags, TLC

VARIABLES
  now,            \* Date.now()
  ticks,          \* number of clock advances so far (bounds the model)
  calls,          \* number of operations invoked so far (bounds the model)
  \* ---- RateLimiter
  requests,       \* RateLimiter.requests: retained timestamps
  limit,          \* RateLimiter.limit
  admitted,       \* history: timestamps of the calls that returned true
  lastRL,         \* history: result of the latest RateLimiter call
  lastWait,       \* history: the latest getTimeUntilNextRequest() since the last
                  \* canMakeRequest(): when it was called and what it returned
  \* ---- AICache
  cache,          \* AICache.cache: key -> [data, timestamp, ttl]
  getResult,      \* history: result of the latest AICache.get
  setLog,         \* history: key -> the latest set since the last clear
  \* ---- AIAgentClient: token ledger
  tokenBalance,       \* AIAgentClient.tokenBalance
  tokenUsageHistory,  \* AIAgentClient.tokenUsageHistory
  stored,             \* localStorage item 'ai_agent_tokens'
  freshStart,         \* history: the constructor found no stored ledger
  statsView,          \* history: the latest getTokenUsageStats call and what it returned
  usageView,          \* history: the latest getTokenUsageHistory call: its limit, the
                      \* number of entries recorded by then, and what it returned
  \* ---- AIService
  svcReqs,        \* history: the calls of the public operations, in call order
  storedBy,       \* history: cache key -> the call whose result the entry holds
  \* ---- AIAgentClient: the connection
  config,             \* import.meta.env.VITE_AI_AGENT_WS_URL
  sockets,            \* the WebSocket objects created so far, in creation order
  ws,                 \* AIAgentClient.ws: index into sockets, 0 for null
  isConnected,        \* AIAgentClient.isConnected
  reconnectAttempts,  \* AIAgentClient.reconnectAttempts
  timers,             \* pending setTimeout(() => this.connect(), delay): the delays
  connectCalls,       \* history: number of connect() calls
  manualCalls,        \* history: number of disconnect() and reconnect() calls
  failedAuto,         \* history: failed reconnect attempts since the last open or reconnect()
  exhausted,          \* history: maxReconnectAttempts attempts failed in a row since reconnect()
  retries,            \* history: closures and failed connects since the last open or reconnect()
  \* ---- AIAgentClient: requests
  creqs,              \* history: the processVoiceData/processDocument/processText calls
  listeners,          \* eventListeners.get('response'): the calls whose handler is registered
  messageQueue,       \* AIAgentClient.messageQueue: the calls whose message is queued
  wire,               \* history: the messages handed to an open socket, in order
  \* ---- DataProcessor
  jobs                \* the ProcessingJobs, in creation order, with the statuses each was given

clockVars == <<now, ticks, calls>>
rlVars    == <<requests, limit, admitted, lastRL, lastWait>>
cacheVars == <<cache, getResult, setLog>>
ledgerVars == <<tokenBalance, tokenUsageHistory, stored, freshStart, usageView,
                statsView>>
svcVars   == <<svcReqs, storedBy>>
connVars  == <<config, sockets, ws, isConnected, reconnectAttempts, timers,
               connectCalls, manualCalls, failedAuto, exhausted, retries>>
reqVars   == <<creqs, listeners, messageQueue, wire, jobs>>
vars      == <<clockVars, rlVars, cacheVars, ledgerVars, svcVars, connVars, reqVars>>

----------------------------------------------------------------------------
(* Bounds of the model *)
MaxTicks      == 2   \* clock advances per behaviour
MaxRLCalls    == 5   \* RateLimiter calls per behaviour
MaxCacheCalls == 4   \* AICache calls per behaviour
MaxLimit      == 2   \* largest RateLimiter quota tried
MaxRecords    == 3   \* usage records added per behaviour
MaxSvcReqs    == 2   \* AIService calls per behaviour
MaxConnects   == 7   \* connect() calls per behaviour
MaxManual     == 1   \* disconnect() and reconnect() calls per behaviour
MaxClientConnects == 2   \* connect() calls per behaviour, with requests
MaxClientReqs == 2   \* processVoiceData/processDocument/processText calls per behaviour
MaxQueueConnects == 3    \* connect() calls per behaviour, with queued messages
MaxBackoffConnects == 6  \* connect() calls per behaviour, for the retry schedule

(* Program constants *)
Window       == 60000   \* RateLimiter: now - 60000
MsPerMinute  == 60000   \* AICache.set: ttlMinutes * 60 * 1000
MsPerDay     == 86400000   \* getTokenUsageStats: 24 * 60 * 60 * 1000

Max(a, b) == IF a >= b THEN a ELSE b
Min(a, b) == IF a <= b THEN a ELSE b
CeilDiv(a, b) == (a + b - 1) \div b          \* Math.ceil(a / b), a >= 0, b > 0

RECURSIVE SeqFilter(_, _)
SeqFilter(s, keep) ==                          \* Array.prototype.filter
  IF s = <<>> THEN <<>>
  ELSE (IF Head(s) \in keep THEN <<Head(s)>> ELSE <<>>) \o SeqFilter(Tail(s), keep)

RECURSIVE SeqMin(_)
SeqMin(s) ==                                   \* Math.min(...s), s non-empty
  IF Len(s) = 1 THEN s[1] ELSE Min(s[1], SeqMin(Tail(s)))

Range(s) == {s[i] : i \in DOMAIN s}

----------------------------------------------------------------------------
(* The clock: Date.now() advances between operations *)
Tick(d) ==
  /\ ticks < MaxTicks
  /\ now' = now + d
  /\ ticks' = ticks + 1
  /\ UNCHANGED <<calls, rlVars, cacheVars, ledgerVars, svcVars, connVars, reqVars>>

----------------------------------------------------------------------------
(* RateLimiter *)

\* this.requests.filter(time => time > oneMinuteAgo)
RLRetained(reqs, t) == SeqFilter(reqs, {x \in Range(reqs) : x > t - Window})

\* the mutation: requests.length > limit instead of >=
RLDeniedOffByOne(reqs, lim) == Len(reqs) > lim
\* if (this.requests.length >= this.limit) return false
RLDenied(reqs, lim) == Len(reqs) >= lim

\* the requests array after canMakeRequest() at time t
RLAfter(reqs, lim, t) ==
  LET kept == RLRetained(reqs, t)
  IN  IF RLDenied(kept, lim) THEN kept ELSE Append(kept, t)

\* the value canMakeRequest() returns at time t
RLAnswer(reqs, lim, t) == ~RLDenied(RLRetained(reqs, t), lim)

\* the mutation: the wait is counted from the newest request
RLWaitNewest(reqs, lim, t) ==
  IF Len(reqs) < lim THEN 0
  ELSE Max(0, Window - (t - (-SeqMin([k \in DOMAIN reqs |-> -reqs[k]]))))
\* getTimeUntilNextRequest() at time t
RLWait(reqs, lim, t) ==
  IF Len(reqs) < lim THEN 0
  ELSE Max(0, Window - (t - SeqMin(reqs)))

NoWait == [asked |-> FALSE, at |-> 0, wait |-> 0]

getTimeUntilNextRequest ==
  /\ lastWait' = [asked |-> TRUE, at |-> now, wait |-> RLWait(requests, limit, now)]
  /\ UNCHANGED <<requests, limit, admitted, lastRL>>
  /\ UNCHANGED <<clockVars, cacheVars, ledgerVars, svcVars, connVars, reqVars>>

canMakeRequest ==
  /\ calls < MaxRLCalls
  /\ calls' = calls + 1
  /\ requests' = RLAfter(requests, limit, now)
  /\ lastRL' = [at |-> now, ok |-> RLAnswer(requests, limit, now)]
  /\ lastWait' = NoWait
  /\ admitted' = IF RLAnswer(requests, limit, now)
                 THEN Append(admitted, now) ELSE admitted
  /\ UNCHANGED <<now, ticks, limit, cacheVars, ledgerVars, svcVars, connVars, reqVars>>

----------------------------------------------------------------------------
(* AICache *)
Absent == "null"
NoSet  == [v |-> Absent, at |-> 0, ttl |-> 0]

\* the mutation: an expired entry is reported absent but left in the map
CacheAfterGetKeep(c, k, t) == c
\* the map after get(k) at time t: an expired entry is deleted
CacheAfterGet(c, k, t) ==
  IF k \in DOMAIN c /\ t - c[k].timestamp > c[k].ttl
  THEN [x \in DOMAIN c \ {k} |-> c[x]]
  ELSE c

\* the mutation: the entry expires one millisecond early (>= instead of >)
CacheHasEarly(c, k, t) == k \in DOMAIN c /\ ~(t - c[k].timestamp >= c[k].ttl)
\* get(k) at time t finds an entry and the entry has not expired
CacheHas(c, k, t) == k \in DOMAIN c /\ ~(t - c[k].timestamp > c[k].ttl)

\* the value get(k) returns at time t
CacheRead(c, k, t) == IF CacheHas(c, k, t) THEN c[k].data ELSE Absent

\* the map after set(k, data, ttlMinutes) at time t
CacheAfterSet(c, k, data, ttlMinutes, t) ==
  [x \in DOMAIN c \cup {k} |->
     IF x = k THEN [data |-> data, timestamp |-> t, ttl |-> ttlMinutes * MsPerMinute]
     ELSE c[x]]

CacheKeys  == {"k1", "k2"}
CacheData  == {"v1", "v2"}
CacheTTLs  == {0, 1}            \* ttlMinutes tried

CacheSet(k, v, m) ==
  /\ calls < MaxCacheCalls
  /\ calls' = calls + 1
  /\ cache' = CacheAfterSet(cache, k, v, m, now)
  /\ setLog' = [setLog EXCEPT ![k] = [v |-> v, at |-> now, ttl |-> m * MsPerMinute]]
  /\ UNCHANGED <<now, ticks, getResult, rlVars, ledgerVars, svcVars, connVars, reqVars>>

CacheGet(k) ==
  /\ calls < MaxCacheCalls
  /\ calls' = calls + 1
  /\ getResult' = [key |-> k, value |-> CacheRead(cache, k, now), at |-> now]
  /\ cache' = CacheAfterGet(cache, k, now)
  /\ UNCHANGED <<now, ticks, setLog, rlVars, ledgerVars, svcVars, connVars, reqVars>>

CacheClear ==
  /\ calls < MaxCacheCalls
  /\ calls' = calls + 1
  /\ cache' = <<>>
  /\ setLog' = [k \in CacheKeys |-> NoSet]
  /\ UNCHANGED <<now, ticks, getResult, rlVars, ledgerVars, svcVars, connVars, reqVars>>

----------------------------------------------------------------------------
(* AIAgentClient: the token ledger *)
DefaultLimit == 10000    \* constructor: available: 10000, limit: 10000
HistoryKept  == 1000     \* saveTokenData: tokenUsageHistory.slice(-1000)

\* constructor: the balance before loadTokenData
DefaultBalance == [available |-> DefaultLimit, used |-> 0, limit |-> DefaultLimit]

\* localStorage.getItem(...) finds nothing
NoStore == [item |-> "absent", balance |-> DefaultBalance, history |-> <<>>]

\* Array.prototype.slice(-n)
LastN(s, n) == IF Len(s) <= n THEN s ELSE SubSeq(s, Len(s) - n + 1, Len(s))

RECURSIVE SumTokens(_)
SumTokens(h) ==          \* reduce((sum, usage) => sum + usage.tokensUsed, 0)
  IF h = <<>> THEN 0 ELSE Head(h).tokensUsed + SumTokens(Tail(h))

\* what localStorage can hold under 'ai_agent_tokens':
\*   "absent":      nothing
\*   "json":        an object with balance and history
\*   "unparseable": a string JSON.parse throws on
\*   "null":        the text null (data.balance throws a TypeError)
\*   "empty":       an object with neither balance nor history
\*   "no_balance":  an object with history only
\*   "no_history":  an object with balance only
StoredItems == {"absent", "json", "unparseable", "null", "empty", "no_balance", "no_history"}

\* loadTokenData: data.balance || this.tokenBalance
LoadBalance(st) ==
  IF st.item \in {"json", "no_history"} THEN st.balance ELSE DefaultBalance
\* loadTokenData: data.history || []
LoadHistory(st) ==
  IF st.item \in {"json", "no_balance"} THEN st.history ELSE <<>>

\* the mutation: the history is cut back to its last 1000 entries on every push
HistoryAfterRecordCapped(h, u) == LastN(Append(h, u), HistoryKept)
\* recordTokenUsage: this.tokenUsageHistory.push(usage)
HistoryAfterRecord(h, u) == Append(h, u)

\* the mutation: available is not floored at 0
BalanceAfterRecordNoFloor(b, u) ==
  [b EXCEPT !.used = b.used + u.tokensUsed,
            !.available = b.limit - (b.used + u.tokensUsed)]
\* recordTokenUsage: used += tokensUsed; available = Math.max(0, limit - used)
BalanceAfterRecord(b, u) ==
  [b EXCEPT !.used = b.used + u.tokensUsed,
            !.available = Max(0, b.limit - (b.used + u.tokensUsed))]

\* saveTokenData: the item written to localStorage
SavedData(b, h) == [item |-> "json", balance |-> b, history |-> LastN(h, HistoryKept)]

UsageOps    == {"process_voice", "parse_events"}
UsageTokens == {0, 50, 6000}
\* a usage as handleResponse hands it over: message.tokenUsage of a message
\* that JSON.parse built, so its timestamp is a string, never a Date
Usages(t) == [operation : UsageOps, tokensUsed : UsageTokens, timestamp : {t},
              timestampIs : {"string"}]

recordTokenUsage(u) ==
  /\ calls < MaxRecords
  /\ calls' = calls + 1
  /\ tokenUsageHistory' = HistoryAfterRecord(tokenUsageHistory, u)
  /\ tokenBalance' = BalanceAfterRecord(tokenBalance, u)
  /\ stored' = SavedData(tokenBalance', tokenUsageHistory')
  /\ UNCHANGED <<now, ticks, freshStart, usageView, statsView, rlVars, cacheVars, svcVars, connVars, reqVars>>

\* Array.prototype.slice(-n) for n >= 0: slice(-0) is slice(0), the whole array
SliceFromEnd(h, n) == IF n = 0 THEN h ELSE LastN(h, n)

\* getTokenUsageHistory(limit)
GetTokenUsageHistory(h, n) == SliceFromEnd(h, n)

NoView == [asked |-> FALSE, limit |-> 0, recorded |-> 0, entries |-> <<>>]
getTokenUsageHistory(n) ==
  /\ usageView' = [asked |-> TRUE, limit |-> n, recorded |-> Len(tokenUsageHistory),
                   entries |-> GetTokenUsageHistory(tokenUsageHistory, n)]
  /\ UNCHANGED <<tokenBalance, tokenUsageHistory, stored, freshStart, statsView>>
  /\ UNCHANGED <<clockVars, rlVars, cacheVars, svcVars, connVars, reqVars>>

\* getTokenUsageStats(): totalUsed, daysSinceStart and averagePerDay (a
\* quotient, kept as numerator and denominator); topOperations, which the
\* quotient does not depend on, is left out.
\*   Date.now() - this.tokenUsageHistory[0]?.timestamp.getTime() || Date.now()
\* an empty history gives NaN and an elapsed time of 0 gives 0, both falsy,
\* so Date.now() is taken; a timestamp that is no Date has no getTime and
\* the call throws a TypeError
GetTokenUsageStats(h, t) ==
  IF h # <<>> /\ h[1].timestampIs # "Date"
  THEN [threw |-> TRUE, totalUsed |-> 0, daysSinceStart |-> 0,
        averagePerDay |-> [num |-> 0, den |-> 1]]
  ELSE LET elapsed == IF h = <<>> THEN 0 ELSE t - h[1].timestamp
           ms == IF h = <<>> \/ elapsed = 0 THEN t ELSE elapsed
           daysSinceStart == Max(1, CeilDiv(ms, MsPerDay))
       IN  [threw |-> FALSE, totalUsed |-> SumTokens(h),
            daysSinceStart |-> daysSinceStart,
            averagePerDay |-> [num |-> SumTokens(h), den |-> daysSinceStart]]

NoStats == [asked |-> FALSE, at |-> 0, recorded |-> 0,
            result |-> GetTokenUsageStats(<<>>, 0)]
getTokenUsageStats ==
  /\ statsView' = [asked |-> TRUE, at |-> now, recorded |-> Len(tokenUsageHistory),
                   result |-> GetTokenUsageStats(tokenUsageHistory, now)]
  /\ UNCHANGED <<tokenBalance, tokenUsageHistory, stored, freshStart, usageView>>
  /\ UNCHANGED <<clockVars, rlVars, cacheVars, svcVars, connVars, reqVars>>

\* what an earlier session that recorded n usages of one token each left in
\* localStorage
EarlierUsage == [operation |-> "process_voice", tokensUsed |-> 1, timestamp |-> 0,
                 timestampIs |-> "string"]
StoredAfter(n) ==
  SavedData([available |-> Max(0, DefaultLimit - n * EarlierUsage.tokensUsed),
             used |-> n * EarlierUsage.tokensUsed, limit |-> DefaultLimit],
            [i \in 1..n |-> EarlierUsage])

----------------------------------------------------------------------------
(* Strings are sequences of UTF-16 code units *)

\* Reminder for the family: soccer
TxtSoccer ==
  <<82, 101, 109, 105, 110, 100, 101, 114, 32, 102, 111, 114, 32, 116, 104,
  101, 32, 102, 97, 109, 105, 108, 121, 58, 32, 115, 111, 99, 99, 101, 114>>

\* Reminder for the family: museum
TxtMuseum ==
  <<82, 101, 109, 105, 110, 100, 101, 114, 32, 102, 111, 114, 32, 116, 104,
  101, 32, 102, 97, 109, 105, 108, 121, 58, 32, 109, 117, 115, 101, 117,
  109>>

\* hello
TxtHello ==
  <<104, 101, 108, 108, 111>>

\* "caf" followed by U+2615 (hot beverage), a code unit above 255
TxtCoffee ==
  <<99, 97, 102, 9749>>

\* Any tip?
TxtTip ==
  <<65, 110, 121, 32, 116, 105, 112, 63>>

\* {"events":[],"user":null}
CtxEmpty ==
  <<123, 34, 101, 118, 101, 110, 116, 115, 34, 58, 91, 93, 44, 34, 117,
  115, 101, 114, 34, 58, 110, 117, 108, 108, 125>>

\* {"events":[{"title":"Dentist today"}],"user":null}
CtxToday ==
  <<123, 34, 101, 118, 101, 110, 116, 115, 34, 58, 91, 123, 34, 116, 105,
  116, 108, 101, 34, 58, 34, 68, 101, 110, 116, 105, 115, 116, 32, 116,
  111, 100, 97, 121, 34, 125, 93, 44, 34, 117, 115, 101, 114, 34, 58, 110,
  117, 108, 108, 125>>

\* a.txt
FileName ==
  <<97, 46, 116, 120, 116>>

\* field trip
KwFieldTrip ==
  <<102, 105, 101, 108, 100, 32, 116, 114, 105, 112>>

\* museum
KwMuseum ==
  <<109, 117, 115, 101, 117, 109>>

\* conference
KwConference ==
  <<99, 111, 110, 102, 101, 114, 101, 110, 99, 101>>

\* teacher
KwTeacher ==
  <<116, 101, 97, 99, 104, 101, 114>>

\* soccer
KwSoccer ==
  <<115, 111, 99, 99, 101, 114>>

\* practice
KwPractice ==
  <<112, 114, 97, 99, 116, 105, 99, 101>>

\* schedule
KwSchedule ==
  <<115, 99, 104, 101, 100, 117, 108, 101>>

\* today
KwToday ==
  <<116, 111, 100, 97, 121>>

\* conflict
KwConflict ==
  <<99, 111, 110, 102, 108, 105, 99, 116>>

\* tip
KwTip ==
  <<116, 105, 112>>

\* advice
KwAdvice ==
  <<97, 100, 118, 105, 99, 101>>

\* User message: 
PromptUserMessage ==
  <<85, 115, 101, 114, 32, 109, 101, 115, 115, 97, 103, 101, 58, 32>>

\* \nContext: 
PromptContext ==
  <<10, 67, 111, 110, 116, 101, 120, 116, 58, 32>>

\* Analyze this document (
PromptAnalyze ==
  <<65, 110, 97, 108, 121, 122, 101, 32, 116, 104, 105, 115, 32, 100, 111,
  99, 117, 109, 101, 110, 116, 32, 40>>

\* ):\n
PromptAnalyzeEnd ==
  <<41, 58, 10>>

\* Jake has a piano recital this Friday at 7 PM at the music academy
TxtPiano ==
  <<74, 97, 107, 101, 32, 104, 97, 115, 32, 97, 32, 112, 105, 97, 110, 111,
  32, 114, 101, 99, 105, 116, 97, 108, 32, 116, 104, 105, 115, 32, 70, 114,
  105, 100, 97, 121, 32, 97, 116, 32, 55, 32, 80, 77, 32, 97, 116, 32, 116,
  104, 101, 32, 109, 117, 115, 105, 99, 32, 97, 99, 97, 100, 101, 109, 121>>

\* SOCCER
WordSoccerUpper ==
  <<83, 79, 67, 67, 69, 82>>

\* Museum
WordMuseumCap ==
  <<77, 117, 115, 101, 117, 109>>

\* piano
WordPiano ==
  <<112, 105, 97, 110, 111>>

\* recital
WordRecital ==
  <<114, 101, 99, 105, 116, 97, 108>>

\* music academy
KwMusicAcademy ==
  <<109, 117, 115, 105, 99, 32, 97, 99, 97, 100, 101, 109, 121>>

\* Science Museum Field Trip
TitleMuseumTrip ==
  <<83, 99, 105, 101, 110, 99, 101, 32, 77, 117, 115, 101, 117, 109, 32,
  70, 105, 101, 108, 100, 32, 84, 114, 105, 112>>

\* Parent-Teacher Conference
TitleConference ==
  <<80, 97, 114, 101, 110, 116, 45, 84, 101, 97, 99, 104, 101, 114, 32, 67,
  111, 110, 102, 101, 114, 101, 110, 99, 101>>

\* Soccer Practice
TitleSoccer ==
  <<83, 111, 99, 99, 101, 114, 32, 80, 114, 97, 99, 116, 105, 99, 101>>

\* Natural History Museum
PlaceMuseum ==
  <<78, 97, 116, 117, 114, 97, 108, 32, 72, 105, 115, 116, 111, 114, 121,
  32, 77, 117, 115, 101, 117, 109>>

\* Room 204
PlaceRoom ==
  <<82, 111, 111, 109, 32, 50, 48, 52>>

\* Lincoln Park Field
PlaceField ==
  <<76, 105, 110, 99, 111, 108, 110, 32, 80, 97, 114, 107, 32, 70, 105,
  101, 108, 100>>

\* String.prototype.toLowerCase on one code unit (ASCII and Latin-1 letters)
LowerCode(c) ==
  IF c \in 65..90 \/ (c \in 192..222 /\ c # 215) THEN c + 32 ELSE c
toLowerCase(s) == [i \in DOMAIN s |-> LowerCode(s[i])]

\* String.prototype.includes
includes(s, sub) ==
  \E i \in 1..(Len(s) - Len(sub) + 1) : SubSeq(s, i, i + Len(sub) - 1) = sub

\* String.prototype.substring(a, b)
substring(s, a, b) == SubSeq(s, a + 1, Min(b, Len(s)))

\* btoa throws InvalidCharacterError on a code unit above 255
BtoaThrows(s) == \E i \in DOMAIN s : s[i] > 255

\* btoa: the base64 digits (0..63, and 64 for the padding '=') of the bytes s
RECURSIVE btoa(_)
btoa(s) ==
  IF s = <<>> THEN <<>>
  ELSE IF Len(s) = 1 THEN
    <<s[1] \div 4, (s[1] % 4) * 16, 64, 64>>
  ELSE IF Len(s) = 2 THEN
    <<s[1] \div 4, (s[1] % 4) * 16 + (s[2] \div 16), (s[2] % 16) * 4, 64>>
  ELSE
    <<s[1] \div 4, (s[1] % 4) * 16 + (s[2] \div 16),
      (s[2] % 16) * 4 + (s[3] \div 64), s[3] % 64>> \o btoa(SubSeq(s, 4, Len(s)))

----------------------------------------------------------------------------
(* AIService *)
MockDelayMin == 500      \* getMockResponse: setTimeout(resolve, 500 + Math.random() * 1000)
MsPerSecond  == 1000     \* makeRequest: Math.ceil(waitTime / 1000)

\* a call of a public operation: op(text, extra)
\*   parseEvents(text), processVoiceNote(transcript), analyzeDocument(content, fileName),
\*   generateChatResponse(message, JSON.stringify(context)),
\*   generateSuggestions: text is JSON.stringify({events, user})
Payload(op, text, extra) == [op |-> op, text |-> text, extra |-> extra]

\* the operation name handed to makeRequest
OperationOf(op) ==
  CASE op = "parseEvents"          -> "parseEvents"
    [] op = "processVoiceNote"     -> "parseEvents"
    [] op = "generateChatResponse" -> "chatResponse"
    [] op = "analyzeDocument"      -> "analyzeDocument"
    [] op = "generateSuggestions"  -> "generateSuggestions"

\* the literal prefix of the cache key
KeyPrefix(op) ==
  CASE op = "parseEvents"          -> "parse_events_"
    [] op = "processVoiceNote"     -> "parse_events_"
    [] op = "generateChatResponse" -> "chat_"
    [] op = "analyzeDocument"      -> "doc_"
    [] op = "generateSuggestions"  -> "suggestions_"

\* cacheTTL, in minutes
TTLMinutes(op) ==
  CASE op = "parseEvents"          -> 60
    [] op = "processVoiceNote"     -> 60
    [] op = "generateChatResponse" -> 15
    [] op = "analyzeDocument"      -> 120
    [] op = "generateSuggestions"  -> 30

\* the prompt handed to makeRequest
PromptOf(p) ==
  CASE p.op = "generateChatResponse" ->
         PromptUserMessage \o p.text \o PromptContext \o p.extra
    [] p.op = "analyzeDocument" ->
         PromptAnalyze \o p.extra \o PromptAnalyzeEnd \o p.text
    [] OTHER -> p.text

\* the mutation: the key is built from the whole base64 text
CacheKeyWhole(p) == [prefix |-> KeyPrefix(p.op), code |-> btoa(p.text)]
\* `${prefix}${btoa(text).substring(0, 32)}`
CacheKeyOf(p) == [prefix |-> KeyPrefix(p.op), code |-> substring(btoa(p.text), 0, 32)]

\* AIResponse.data: the titles of the parsed events, or the reply of the
\* other operations
Data(kind, events, reply) == [kind |-> kind, events |-> events, reply |-> reply]
NoData == Data("none", <<>>, "")

\* if (cached): a string is truthy unless empty, arrays and objects always
Truthy(d) == ~(d.kind = "string" /\ d.reply = "")

\* getMockEventParsing
MockEventParsing(text) ==
  LET lowerText == toLowerCase(text)
  IN  Data("events",
        (IF includes(lowerText, KwFieldTrip) \/ includes(lowerText, KwMuseum)
           THEN <<"Science Museum Field Trip">> ELSE <<>>)
        \o (IF includes(lowerText, KwConference) \/ includes(lowerText, KwTeacher)
           THEN <<"Parent-Teacher Conference">> ELSE <<>>)
        \o (IF includes(lowerText, KwSoccer) \/ includes(lowerText, KwPractice)
           THEN <<"Soccer Practice">> ELSE <<>>),
        "")

\* the events getMockEventParsing pushes, by title; confidence in hundredths
ParsedEvent(title, location, type, confidence) ==
  [title |-> title, location |-> location, type |-> type, confidence |-> confidence]
\* the mutation: the museum trip is pushed as a meeting
ParsedEventOfMeeting(title) ==
  CASE title = "Science Museum Field Trip" ->
         ParsedEvent(TitleMuseumTrip, PlaceMuseum, "meeting", 92)
    [] title = "Parent-Teacher Conference" ->
         ParsedEvent(TitleConference, PlaceRoom, "meeting", 88)
    [] title = "Soccer Practice" ->
         ParsedEvent(TitleSoccer, PlaceField, "event", 95)
\* the event pushed under each title
ParsedEventOf(title) ==
  CASE title = "Science Museum Field Trip" ->
         ParsedEvent(TitleMuseumTrip, PlaceMuseum, "event", 92)
    [] title = "Parent-Teacher Conference" ->
         ParsedEvent(TitleConference, PlaceRoom, "meeting", 88)
    [] title = "Soccer Practice" ->
         ParsedEvent(TitleSoccer, PlaceField, "event", 95)

\* getMockChatResponse: the replies it can give (one of three tips at random)
MockChatResponses(message) ==
  LET lowerMessage == toLowerCase(message)
  IN  IF includes(lowerMessage, KwSchedule) \/ includes(lowerMessage, KwToday)
        THEN {Data("string", <<>>, "schedule")}
      ELSE IF includes(lowerMessage, KwConflict)
        THEN {Data("string", <<>>, "conflict")}
      ELSE IF includes(lowerMessage, KwTip) \/ includes(lowerMessage, KwAdvice)
        THEN {Data("string", <<>>, "tip 1"), Data("string", <<>>, "tip 2"),
              Data("string", <<>>, "tip 3")}
      ELSE {Data("string", <<>>, "help")}

\* getMockResponse: the data of the responses the handler of `operation` can
\* give; all of them are successes
MockResponses(operation, prompt) ==
  CASE operation = "parseEvents"         -> {MockEventParsing(prompt)}
    [] operation = "chatResponse"        -> MockChatResponses(prompt)
    [] operation = "analyzeDocument"     -> {Data("object", <<"Spring Break">>, "analysis")}
    [] operation = "generateSuggestions" -> {Data("array", <<>>, "suggestions")}

Result(success, data, error, wait) ==
  [success |-> success, data |-> data, error |-> error, wait |-> wait]

\* the mutation: the cache is consulted before the rate limiter
SyncPartCacheFirst(p, reqs, lim, c, t) ==
  LET key  == CacheKeyOf(p)
      hit  == CacheHas(c, key, t) /\ Truthy(c[key].data)
      kept == RLAfter(reqs, lim, t)
  IN  IF hit
      THEN [requests |-> reqs, cache |-> CacheAfterGet(c, key, t), state |-> "hit",
            admitted |-> TRUE, cacheReads |-> 1,
            result |-> Result(TRUE, c[key].data, "", 0)]
      ELSE IF ~RLAnswer(reqs, lim, t)
      THEN [requests |-> kept, cache |-> CacheAfterGet(c, key, t), state |-> "denied",
            admitted |-> FALSE, cacheReads |-> 1,
            result |-> Result(FALSE, NoData, "Rate limit exceeded",
                              CeilDiv(RLWait(kept, lim, t), MsPerSecond))]
      ELSE [requests |-> kept, cache |-> CacheAfterGet(c, key, t), state |-> "waiting",
            admitted |-> TRUE, cacheReads |-> 1,
            result |-> Result(FALSE, NoData, "", 0)]
\* makeRequest up to its first await: the rate limiter, then the cache
SyncPart(p, reqs, lim, c, t) ==
  LET key  == CacheKeyOf(p)
      kept == RLAfter(reqs, lim, t)
      hit  == CacheHas(c, key, t) /\ Truthy(c[key].data)
  IN  IF ~RLAnswer(reqs, lim, t)
      THEN [requests |-> kept, cache |-> c, state |-> "denied",
            admitted |-> FALSE, cacheReads |-> 0,
            result |-> Result(FALSE, NoData, "Rate limit exceeded",
                              CeilDiv(RLWait(kept, lim, t), MsPerSecond))]
      ELSE IF hit
      THEN [requests |-> kept, cache |-> CacheAfterGet(c, key, t), state |-> "hit",
            admitted |-> TRUE, cacheReads |-> 1,
            result |-> Result(TRUE, c[key].data, "", 0)]
      ELSE [requests |-> kept, cache |-> CacheAfterGet(c, key, t), state |-> "waiting",
            admitted |-> TRUE, cacheReads |-> 1,
            result |-> Result(FALSE, NoData, "", 0)]

\* the calls tried
SvcPayloads ==
  { Payload("parseEvents", TxtSoccer, <<>>),
    Payload("parseEvents", TxtCoffee, <<>>),
    Payload("processVoiceNote", TxtSoccer, <<>>),
    Payload("generateChatResponse", TxtTip, CtxEmpty),
    Payload("generateChatResponse", TxtTip, CtxToday),
    Payload("analyzeDocument", TxtMuseum, FileName),
    Payload("generateSuggestions", CtxEmpty, <<>>) }

\* the texts tried on parseEvents: none, one or two of ten words, and the
\* piano recital
ParseWords ==
  { KwFieldTrip, KwMuseum, KwConference, KwTeacher, KwSoccer, KwPractice,
    WordSoccerUpper, WordMuseumCap, WordPiano, WordRecital }
ParseTexts ==
  {<<>>, TxtPiano} \cup ParseWords
    \cup { a \o <<32>> \o b : a \in ParseWords, b \in ParseWords }
ParsePayloads == { Payload("parseEvents", text, <<>>) : text \in ParseTexts }
\* calls whose payloads differ and whose cache keys may not: two texts with
\* the same first 24 characters, one chat message with two contexts
KeyPayloads ==
  { Payload("parseEvents", TxtSoccer, <<>>),
    Payload("parseEvents", TxtMuseum, <<>>),
    Payload("generateChatResponse", TxtTip, CtxEmpty),
    Payload("generateChatResponse", TxtTip, CtxToday) }
AllPayloads == SvcPayloads \cup ParsePayloads \cup KeyPayloads

\* per call: whether computing the key throws, the key, the possible answers
KeyThrows == [p \in AllPayloads |-> BtoaThrows(p.text)]
KeyOf     == [p \in AllPayloads |-> IF BtoaThrows(p.text) THEN CacheKeyOf(Payload(p.op, <<>>, <<>>))
                                     ELSE CacheKeyOf(p)]
AnswersOf == [p \in AllPayloads |-> MockResponses(OperationOf(p.op), PromptOf(p))]

\* a public operation is called: the cache key is computed (btoa may throw,
\* which rejects the promise of the async function), then makeRequest runs
\* up to the await of getMockResponse
SvcCall(p) ==
  /\ Len(svcReqs) < MaxSvcReqs
  /\ LET done == {i \in DOMAIN svcReqs : svcReqs[i].state = "done"}
         new(o) == [payload |-> p, state |-> o.state, admitted |-> o.admitted,
                    cacheReads |-> o.cacheReads, dispatched |-> (o.state = "waiting"),
                    servedBy |-> IF o.state = "hit" THEN storedBy[KeyOf[p]] ELSE 0,
                    startAt |-> now, endAt |-> now, result |-> o.result,
                    hadEntry |-> ~KeyThrows[p] /\ CacheHas(cache, KeyOf[p], now),
                    doneBefore |-> done,
                    uncleared |-> {i \in done : ~svcReqs[i].cleared},
                    cleared |-> FALSE]
     IN  IF KeyThrows[p]
         THEN /\ svcReqs' = Append(svcReqs,
                   new([state |-> "rejected", admitted |-> FALSE, cacheReads |-> 0,
                        result |-> Result(FALSE, NoData, "", 0)]))
              /\ UNCHANGED <<requests, cache>>
         ELSE LET o == SyncPart(p, requests, limit, cache, now)
              IN  /\ requests' = o.requests
                  /\ cache' = o.cache
                  /\ svcReqs' = Append(svcReqs, new(o))
  /\ UNCHANGED <<clockVars, limit, admitted, lastRL, lastWait, getResult, setLog,
                 storedBy, ledgerVars, connVars, reqVars>>

\* the simulated delay of at least 500 ms elapses (the clock is at least at
\* startAt + 500 afterwards), the handler answers, the answer is cached and
\* returned
SvcComplete(i) ==
  /\ i \in DOMAIN svcReqs
  /\ svcReqs[i].state = "waiting"
  /\ now' = Max(now, svcReqs[i].startAt + MockDelayMin)
  /\ LET p == svcReqs[i].payload
     IN  \E d \in AnswersOf[p] :
           /\ cache' = CacheAfterSet(cache, KeyOf[p], d, TTLMinutes(p.op), now')
           /\ storedBy' = [k \in DOMAIN storedBy \cup {KeyOf[p]} |->
                             IF k = KeyOf[p] THEN i ELSE storedBy[k]]
           /\ svcReqs' = [svcReqs EXCEPT ![i].state = "done", ![i].endAt = now',
                                         ![i].result = Result(TRUE, d, "", 0)]
  /\ UNCHANGED <<ticks, calls, rlVars, getResult, setLog, ledgerVars, connVars, reqVars>>

\* clearCache(), called while the cache holds something
clearCache ==
  /\ cache # <<>>
  /\ cache' = <<>>
  /\ storedBy' = <<>>
  /\ svcReqs' = [i \in DOMAIN svcReqs |->
                   IF svcReqs[i].state = "done"
                   THEN [svcReqs[i] EXCEPT !.cleared = TRUE] ELSE svcReqs[i]]
  /\ UNCHANGED <<clockVars, rlVars, getResult, setLog, ledgerVars, connVars, reqVars>>

----------------------------------------------------------------------------
(* AIAgentClient: the connection *)
MaxReconnectAttempts == 5      \* private maxReconnectAttempts = 5
ReconnectDelay       == 1000   \* private reconnectDelay = 1000

\* VITE_AI_AGENT_WS_URL: not set (the default 'wss://localhost:8080/ai-agent'
\* is used), a placeholder that names no reachable host, a string that is no
\* WebSocket URL (new WebSocket throws SyntaxError), or the URL of an agent
Configs == {"absent", "placeholder", "malformed", "valid"}

\* the connection fields as one record, for the helpers below
Conn(so, w, ic, ra, ti, cc, fa, ex, re) ==
  [sockets |-> so, ws |-> w, isConnected |-> ic, reconnectAttempts |-> ra,
   timers |-> ti, connectCalls |-> cc, failedAuto |-> fa, exhausted |-> ex,
   retries |-> re]
ThisConn == Conn(sockets, ws, isConnected, reconnectAttempts, timers,
                 connectCalls, failedAuto, exhausted, retries)

RECURSIVE Pow2(_)
Pow2(n) == IF n = 0 THEN 1 ELSE 2 * Pow2(n - 1)       \* Math.pow(2, n)

\* the mutation: the attempt counter is not checked against the maximum
AttemptReconnectAlways(c) ==
  [c EXCEPT !.reconnectAttempts = c.reconnectAttempts + 1,
            !.timers = Append(c.timers, ReconnectDelay * Pow2(c.reconnectAttempts))]
\* the mutation: the delay grows by reconnectDelay with every attempt
AttemptReconnectLinear(c) ==
  IF c.reconnectAttempts < MaxReconnectAttempts
  THEN [c EXCEPT !.reconnectAttempts = c.reconnectAttempts + 1,
                 !.timers = Append(c.timers,
                                   ReconnectDelay * (c.reconnectAttempts + 1))]
  ELSE c
\* attemptReconnect()
AttemptReconnect(c) ==
  IF c.reconnectAttempts < MaxReconnectAttempts
  THEN [c EXCEPT !.reconnectAttempts = c.reconnectAttempts + 1,
                 !.timers = Append(c.timers,
                                   ReconnectDelay * Pow2(c.reconnectAttempts + 1 - 1))]
  ELSE c

\* one more reconnect attempt has failed
Failed(c) ==
  [c EXCEPT !.failedAuto = c.failedAuto + 1,
            !.exhausted = c.exhausted \/ c.failedAuto + 1 >= MaxReconnectAttempts]

\* one more closure or failed connect
Closed(c) == [c EXCEPT !.retries = c.retries + 1]

\* connect(); auto: called by the reconnect timer
Connect(c, cfg, auto) ==
  LET c1 == [c EXCEPT !.connectCalls = c.connectCalls + 1]
  IN  IF cfg = "malformed"
      THEN AttemptReconnect(Closed(IF auto THEN Failed(c1) ELSE c1))
      ELSE [c1 EXCEPT !.sockets = Append(c.sockets,
                         [st |-> "connecting", auto |-> auto, opened |-> FALSE]),
                      !.ws = Len(c.sockets) + 1]

\* disconnect()
Disconnect(c) ==
  [c EXCEPT !.sockets = IF c.ws # 0 /\ c.sockets[c.ws].st \in {"connecting", "open"}
                        THEN [c.sockets EXCEPT ![c.ws].st = "closing"]
                        ELSE c.sockets,
            !.ws = 0,
            !.isConnected = FALSE]

\* reconnect()
Reconnect(c, cfg) ==
  Connect([Disconnect(c) EXCEPT !.reconnectAttempts = 0, !.failedAuto = 0,
                                !.exhausted = FALSE, !.retries = 0], cfg, FALSE)

SetConn(c) ==
  /\ sockets' = c.sockets
  /\ ws' = c.ws
  /\ isConnected' = c.isConnected
  /\ reconnectAttempts' = c.reconnectAttempts
  /\ timers' = c.timers
  /\ connectCalls' = c.connectCalls
  /\ failedAuto' = c.failedAuto
  /\ exhausted' = c.exhausted
  /\ retries' = c.retries

\* a reconnect timer fires: connect()
TimerFire(k, maxConnects) ==
  /\ k \in DOMAIN timers
  /\ connectCalls < maxConnects
  /\ SetConn(Connect([ThisConn EXCEPT !.timers =
                        SubSeq(timers, 1, k - 1) \o SubSeq(timers, k + 1, Len(timers))],
                     config, TRUE))
  /\ UNCHANGED <<config, manualCalls, clockVars, rlVars, cacheVars, ledgerVars, svcVars, reqVars>>

\* the handshake of socket i succeeds: onopen (the message queue is flushed
\* by the requests part)
OpenConn(c, i) ==
  [c EXCEPT !.sockets = [c.sockets EXCEPT ![i].st = "open", ![i].opened = TRUE],
            !.isConnected = TRUE,
            !.reconnectAttempts = 0,
            !.failedAuto = 0,
            !.retries = 0]

\* the mutation: a closure does not schedule a retry
CloseConnNoRetry(c, i) ==
  [c EXCEPT !.sockets = [c.sockets EXCEPT ![i].st = "closed"], !.isConnected = FALSE]
\* socket i fails to connect, is closed by the agent, or finishes closing:
\* onclose
CloseConn(c, i) ==
  LET c1 == [c EXCEPT !.sockets = [c.sockets EXCEPT ![i].st = "closed"],
                      !.isConnected = FALSE]
      c2 == IF c.sockets[i].auto /\ c.sockets[i].st = "connecting" THEN Failed(c1) ELSE c1
  IN  AttemptReconnect(Closed(c2))

\* an agent can be reached at the default URL and at a valid one
Reachable(cfg) == cfg \in {"absent", "valid"}

disconnect ==
  /\ manualCalls < MaxManual
  /\ manualCalls' = manualCalls + 1
  /\ SetConn(Disconnect(ThisConn))
  /\ UNCHANGED <<config, clockVars, rlVars, cacheVars, ledgerVars, svcVars, reqVars>>

reconnect(maxConnects) ==
  /\ manualCalls < MaxManual
  /\ connectCalls < maxConnects
  /\ manualCalls' = manualCalls + 1
  /\ SetConn(Reconnect(ThisConn, config))
  /\ UNCHANGED <<config, clockVars, rlVars, cacheVars, ledgerVars, svcVars, reqVars>>

----------------------------------------------------------------------------
(* AIAgentClient: requests *)
VoiceEstimate    == 50     \* processVoiceData: canMakeRequest(50)
DocumentEstimate == 100    \* processDocument: canMakeRequest(100)
CharsPerToken    == 4      \* processText: Math.ceil(text.length / 4)

\* a call: processVoiceData(blob), processDocument(file) or
\* processText(text, operation) with a text of `len` characters
ClientCall(kind, operation, len) == [kind |-> kind, operation |-> operation, len |-> len]
ClientCalls ==
  { ClientCall("voice", "process_voice", 0),
    ClientCall("document", "process_document", 0),
    ClientCall("text", "parse_events", 15),
    ClientCall("text", "parse_events", 201) }

\* the estimate handed to canMakeRequest
EstimateOf(call) ==
  CASE call.kind = "voice"    -> VoiceEstimate
    [] call.kind = "document" -> DocumentEstimate
    [] call.kind = "text"     -> CeilDiv(call.len, CharsPerToken)

\* message.tokenUsage of a response that carries none
NoUsage == [operation |-> "", tokensUsed |-> 0, timestamp |-> 0, timestampIs |-> "string"]

\* the mutation: the balance has to exceed the estimate
CanMakeRequestStrict(b, estimatedTokens) == b.available > estimatedTokens
\* canMakeRequest(estimatedTokens)
CanMakeRequest(b, estimatedTokens) == b.available >= estimatedTokens

\* sendMessage(message) for call r: what happens to the message
\*   "sent": handed to the open socket; "queued": pushed on messageQueue;
\*   "dropped": send() on a closing or closed socket discards it;
\*   "threw": send() on a socket that is still connecting throws
SendOutcome(ic, w, so) ==
  IF ic /\ w # 0
  THEN CASE so[w].st = "open"       -> "sent"
         [] so[w].st = "connecting" -> "threw"
         [] OTHER                   -> "dropped"
  ELSE "queued"

\* processMessageQueue(), run by onopen: messages are shifted off the queue
\* and handed to this.ws; without this.ws they are shifted and not sent; a
\* send() that throws ends the loop, its message already shifted
RECURSIVE FlushQueue(_, _, _, _)
FlushQueue(q, wi, w, so) ==
  IF q = <<>> THEN [messageQueue |-> q, wire |-> wi]
  ELSE IF w = 0 THEN FlushQueue(Tail(q), wi, w, so)
  ELSE IF so[w].st = "connecting" THEN [messageQueue |-> Tail(q), wire |-> wi]
  ELSE IF so[w].st = "open"
       THEN FlushQueue(Tail(q), Append(wi, [socket |-> w, msg |-> Head(q), answered |-> FALSE, usage |-> NoUsage]), w, so)
  ELSE FlushQueue(Tail(q), wi, w, so)

\* the new Promise(...) of call r: the timeout is set, the handler is
\* registered, the message is sent or queued; a throwing send rejects
StartPromise(r) ==
  LET out == SendOutcome(isConnected, ws, sockets)
  IN  /\ creqs' = [creqs EXCEPT ![r].state = IF out = "threw" THEN "rejected" ELSE "pending",
                                ![r].why = IF out = "threw" THEN "send" ELSE "",
                                ![r].timer = TRUE,
                                ![r].connectedAtCall = isConnected]
      /\ listeners' = Append(listeners, r)
      /\ messageQueue' = IF out = "queued" THEN Append(messageQueue, r) ELSE messageQueue
      /\ wire' = IF out = "sent" THEN Append(wire, [socket |-> ws, msg |-> r, answered |-> FALSE, usage |-> NoUsage]) ELSE wire

NewCall(call, state) ==
  [call |-> call, state |-> state, why |-> "", timer |-> FALSE,
   connectedAtCall |-> isConnected, data |-> 0]

\* processText(text, operation)
ProcessTextCall(call) ==
  /\ call.kind = "text"
  /\ Len(creqs) < MaxClientReqs
  /\ IF ~CanMakeRequest(tokenBalance, EstimateOf(call))
     THEN /\ creqs' = Append(creqs, NewCall(call, "insufficient"))
          /\ UNCHANGED <<listeners, messageQueue, wire>>
     ELSE LET r == Len(creqs) + 1
              out == SendOutcome(isConnected, ws, sockets)
          IN  /\ creqs' = Append(creqs,
                   [NewCall(call, IF out = "threw" THEN "rejected" ELSE "pending")
                      EXCEPT !.why = IF out = "threw" THEN "send" ELSE "",
                             !.timer = TRUE])
              /\ listeners' = Append(listeners, r)
              /\ messageQueue' = IF out = "queued" THEN Append(messageQueue, r)
                                 ELSE messageQueue
              /\ wire' = IF out = "sent" THEN Append(wire, [socket |-> ws, msg |-> r, answered |-> FALSE, usage |-> NoUsage])
                         ELSE wire
  /\ UNCHANGED <<clockVars, rlVars, cacheVars, ledgerVars, svcVars, connVars>>

\* processText called by a caller other than DataProcessor
processText(call) == ProcessTextCall(call) /\ UNCHANGED jobs

\* processVoiceData(blob) and processDocument(file) up to the await of
\* blobToBase64
ProcessBlobCall(call) ==
  /\ call.kind \in {"voice", "document"}
  /\ Len(creqs) < MaxClientReqs
  /\ creqs' = Append(creqs,
       NewCall(call, IF CanMakeRequest(tokenBalance, EstimateOf(call))
                     THEN "encoding" ELSE "insufficient"))
  /\ UNCHANGED <<listeners, messageQueue, wire>>
  /\ UNCHANGED <<clockVars, rlVars, cacheVars, ledgerVars, svcVars, connVars>>

\* processVoiceData / processDocument called by a caller other than
\* DataProcessor
processBlob(call) == ProcessBlobCall(call) /\ UNCHANGED jobs

\* blobToBase64 resolves: the rest of processVoiceData / processDocument
Encoded(r) ==
  /\ r \in DOMAIN creqs
  /\ creqs[r].state = "encoding"
  /\ StartPromise(r)
  /\ UNCHANGED <<clockVars, rlVars, cacheVars, ledgerVars, svcVars, connVars>>
  /\ UNCHANGED jobs

\* the timeout of call r fires (30 s, 60 s for a document): reject; the
\* handler stays registered
Timeout(r) ==
  /\ r \in DOMAIN creqs
  /\ creqs[r].timer
  /\ creqs' = [creqs EXCEPT ![r].timer = FALSE,
                            ![r].state = IF @ = "pending" THEN "rejected" ELSE @,
                            ![r].why = IF creqs[r].state = "pending" THEN "timeout" ELSE @]
  /\ UNCHANGED <<listeners, messageQueue, wire>>
  /\ UNCHANGED <<clockVars, rlVars, cacheVars, ledgerVars, svcVars, connVars>>
  /\ UNCHANGED jobs

\* emit('response', {operation, data}): listeners.forEach over the live
\* array; a handler whose operation matches clears its timeout, removes
\* itself (the later handlers move up by one, so forEach skips the next one)
\* and resolves its promise
RECURSIVE EmitResponse(_, _, _, _, _)
EmitResponse(k, ls, rs, operation, data) ==
  IF k > Len(ls) THEN [listeners |-> ls, creqs |-> rs]
  ELSE LET r == ls[k]
       IN  IF rs[r].call.operation = operation
           THEN EmitResponse(k + 1,
                  SubSeq(ls, 1, k - 1) \o SubSeq(ls, k + 1, Len(ls)),
                  [rs EXCEPT ![r].timer = FALSE,
                             ![r].state = IF @ = "pending" THEN "resolved" ELSE @,
                             ![r].data = IF rs[r].state = "pending" THEN data ELSE @],
                  operation, data)
           ELSE EmitResponse(k + 1, ls, rs, operation, data)


\* the mutation: the usage is recorded by handleResponse and once more
LedgerAfterResponseTwice(b, h, st, u) ==
  IF u = NoUsage
  THEN [balance |-> b, history |-> h, stored |-> st]
  ELSE LET h2 == HistoryAfterRecord(HistoryAfterRecord(h, u), u)
           b2 == BalanceAfterRecord(BalanceAfterRecord(b, u), u)
       IN  [balance |-> b2, history |-> h2, stored |-> SavedData(b2, h2)]
\* handleResponse: if (message.tokenUsage) this.recordTokenUsage(...)
LedgerAfterResponse(b, h, st, u) ==
  IF u = NoUsage
  THEN [balance |-> b, history |-> h, stored |-> st]
  ELSE LET h1 == HistoryAfterRecord(h, u)
           b1 == BalanceAfterRecord(b, u)
       IN  [balance |-> b1, history |-> h1, stored |-> SavedData(b1, h1)]
\* the agent answers message m of the wire on the socket it came in on:
\* onmessage, handleMessage, handleResponse (with or without tokenUsage)
Response(m, u) ==
  /\ m \in DOMAIN wire
  /\ sockets[wire[m].socket].st = "open"
  /\ ~wire[m].answered
  /\ wire' = [wire EXCEPT ![m].answered = TRUE, ![m].usage = u]
  /\ LET l == LedgerAfterResponse(tokenBalance, tokenUsageHistory, stored, u)
     IN  /\ tokenUsageHistory' = l.history
         /\ tokenBalance' = l.balance
         /\ stored' = l.stored
  /\ LET e == EmitResponse(1, listeners, creqs,
                           creqs[wire[m].msg].call.operation, wire[m].msg)
     IN  /\ listeners' = e.listeners
         /\ creqs' = e.creqs
  /\ UNCHANGED <<messageQueue, freshStart, usageView, statsView>>
  /\ UNCHANGED <<clockVars, rlVars, cacheVars, svcVars, connVars>>
  /\ UNCHANGED jobs

\* message.data of an inbound 'token_update': with or without a balance,
\* which may name any of the balance's fields
TokenUpdate(has, balance) == [has |-> has, balance |-> balance]
TokenUpdates ==
  { TokenUpdate(FALSE, [used |-> 0]),
    TokenUpdate(TRUE, [used |-> 10]),
    TokenUpdate(TRUE, [available |-> 50]),
    TokenUpdate(TRUE, [available |-> 3]) }

\* { ...this.tokenBalance, ...message.data.balance }
MergeBalance(b, upd) ==
  [f \in DOMAIN b \cup DOMAIN upd |-> IF f \in DOMAIN upd THEN upd[f] ELSE b[f]]

\* an inbound 'token_update' on an open socket: handleTokenUpdate
handleTokenUpdate(i, data) ==
  /\ i \in DOMAIN sockets
  /\ sockets[i].st = "open"
  /\ IF data.has
     THEN /\ tokenBalance' = MergeBalance(tokenBalance, data.balance)
          /\ stored' = SavedData(tokenBalance', tokenUsageHistory)
     ELSE UNCHANGED <<tokenBalance, stored>>
  /\ UNCHANGED <<tokenUsageHistory, freshStart, usageView, statsView>>
  /\ UNCHANGED <<clockVars, rlVars, cacheVars, svcVars, connVars, reqVars>>

\* the handshake of socket i succeeds: onopen
SocketOpen(i) ==
  /\ i \in DOMAIN sockets
  /\ sockets[i].st = "connecting"
  /\ Reachable(config)
  /\ SetConn(OpenConn(ThisConn, i))
  /\ LET f == FlushQueue(messageQueue, wire, ws, sockets')
     IN  /\ messageQueue' = f.messageQueue
         /\ wire' = f.wire
  /\ UNCHANGED <<creqs, listeners>>
  /\ UNCHANGED <<config, manualCalls, clockVars, rlVars, cacheVars, ledgerVars, svcVars>>
  /\ UNCHANGED jobs

\* socket i fails to connect, is closed by the agent, or finishes closing:
\* onclose
SocketClose(i) ==
  /\ i \in DOMAIN sockets
  /\ sockets[i].st \in {"connecting", "open", "closing"}
  /\ SetConn(CloseConn(ThisConn, i))
  /\ UNCHANGED <<config, manualCalls, clockVars, rlVars, cacheVars, ledgerVars, svcVars, reqVars>>

----------------------------------------------------------------------------
(* DataProcessor: the processing jobs *)

\* createJob, setJobs(prev => [job, ...prev]) and, in the try block,
\* updateJob(job.id, {status: 'processing'}): the statuses the job is given,
\* in order; req is the connector call made for it
NewJob(req) == [req |-> req, status |-> "processing",
                statuses |-> <<"pending", "processing">>]

\* updateJob(id, {status})
UpdateJob(js, j, status) ==
  [js EXCEPT ![j].status = status, ![j].statuses = Append(@, status)]

\* DataProcessor.processText up to the await
JobText(call) ==
  /\ ProcessTextCall(call)
  /\ jobs' = Append(jobs, NewJob(Len(creqs) + 1))

\* DataProcessor.processVoiceData / processDocument up to the await
JobBlob(call) ==
  /\ ProcessBlobCall(call)
  /\ jobs' = Append(jobs, NewJob(Len(creqs) + 1))

\* what the awaited promise resolved with: undefined or null, a result
\* without events, or a result with events
ResultKinds == {"undefined", "plain", "events"}

\* the rest of the handler once the connector's promise has settled:
\* updateJob(completed), onEventExtracted(result.events) when there are
\* events (it returns or throws), and the catch block's updateJob(error)
JobAfterAwait(js, j, settled, kind, callbackThrows) ==
  IF settled # "resolved" \/ kind = "undefined"
  THEN UpdateJob(js, j, "error")
  ELSE IF kind = "events" /\ callbackThrows
  THEN UpdateJob(UpdateJob(js, j, "completed"), j, "error")
  ELSE UpdateJob(js, j, "completed")

JobSettle(j, kind, callbackThrows) ==
  /\ j \in DOMAIN jobs
  /\ jobs[j].status = "processing"
  /\ creqs[jobs[j].req].state \in {"resolved", "rejected", "insufficient"}
  /\ jobs' = JobAfterAwait(jobs, j, creqs[jobs[j].req].state, kind, callbackThrows)
  /\ UNCHANGED <<creqs, listeners, messageQueue, wire>>
  /\ UNCHANGED <<clockVars, rlVars, cacheVars, ledgerVars, svcVars, connVars>>

----------------------------------------------------------------------------
(* Initial states *)
InitClock == now = 0 /\ ticks = 0 /\ calls = 0
InitRL    == requests = <<>> /\ admitted = <<>> /\ lastRL = [at |-> 0, ok |-> FALSE]
             /\ lastWait = NoWait
InitCache == cache = <<>> /\ getResult = [key |-> "none", value |-> Absent, at |-> 0]
             /\ setLog = [k \in CacheKeys |-> NoSet]

InitSvc   == svcReqs = <<>> /\ storedBy = <<>>

InitReq == creqs = <<>> /\ listeners = <<>> /\ messageQueue = <<>> /\ wire = <<>> /\ jobs = <<>>

\* the constructor: connect()
InitConn(cfg) ==
  /\ config = cfg
  /\ manualCalls = 0
  /\ LET c == Connect(Conn(<<>>, 0, FALSE, 0, <<>>, 0, 0, FALSE, 0), cfg, FALSE)
     IN  /\ sockets = c.sockets /\ ws = c.ws /\ isConnected = c.isConnected
         /\ reconnectAttempts = c.reconnectAttempts /\ timers = c.timers
         /\ connectCalls = c.connectCalls /\ failedAuto = c.failedAuto
         /\ exhausted = c.exhausted
         /\ retries = c.retries

\* the constructor: default balance, then loadTokenData
InitLedger(st) ==
  /\ stored = st
  /\ tokenBalance = LoadBalance(st)
  /\ tokenUsageHistory = LoadHistory(st)
  /\ freshStart = (st.item = "absent")
  /\ usageView = NoView
  /\ statsView = NoStats

(* RateLimiter on its own: any quota, calls at non-decreasing times *)
RLDeltas == {1, 59999}
InitRLSpec == InitClock /\ InitRL /\ InitCache /\ InitSvc /\ InitLedger(NoStore) /\ InitConn("valid") /\ InitReq /\ limit \in 1..MaxLimit
NextRL == canMakeRequest \/ getTimeUntilNextRequest \/ \E d \in RLDeltas : Tick(d)
SpecRL == InitRLSpec /\ [][NextRL]_vars

(* AICache on its own: any sequence of set, get and clear *)
CacheDeltas == {1, 59999}
InitCacheSpec == InitClock /\ InitRL /\ InitCache /\ InitSvc /\ InitLedger(NoStore) /\ InitConn("valid") /\ InitReq /\ limit = 1
NextCache ==
  \/ \E k \in CacheKeys, v \in CacheData, m \in CacheTTLs : CacheSet(k, v, m)
  \/ \E k \in CacheKeys : CacheGet(k)
  \/ CacheClear
  \/ \E d \in CacheDeltas : Tick(d)
SpecCache == InitCacheSpec /\ [][NextCache]_vars

(* The ledger: a new connector, started with or without a stored ledger,
   records usages *)
\* the stored ledger of an earlier session, damaged in one of the ways above
Damaged(item) == [StoredAfter(MaxRecords) EXCEPT !.item = item]
StoredAtStart ==
  {NoStore, StoredAfter(HistoryKept - 1), StoredAfter(HistoryKept)}
    \cup { Damaged(item) : item \in StoredItems \ {"absent", "json"} }
InitLedgerSpec ==
  /\ InitClock /\ InitRL /\ InitCache /\ InitSvc /\ InitConn("valid") /\ InitReq /\ limit = 1
  /\ \E st \in StoredAtStart : InitLedger(st)
HistoryLimits == {1, 2}
NextLedger ==
  \/ \E u \in Usages(now) : recordTokenUsage(u)
  \/ \E n \in HistoryLimits : getTokenUsageHistory(n)
SpecLedger == InitLedgerSpec /\ [][NextLedger]_vars

(* The usage statistics: a connector started with or without a stored
   ledger records usages and is asked for its statistics, while the clock
   advances by nothing, by a millisecond short of a day, or by a day *)
StatsStores == {NoStore, StoredAfter(MaxRecords)}
StatsDeltas == {MsPerDay - 1, MsPerDay}
InitStatsSpec ==
  /\ InitClock /\ InitRL /\ InitCache /\ InitSvc /\ InitConn("valid") /\ InitReq /\ limit = 1
  /\ \E st \in StatsStores : InitLedger(st)
NextStats ==
  \/ \E u \in Usages(now) : recordTokenUsage(u)
  \/ getTokenUsageStats
  \/ \E d \in StatsDeltas : Tick(d)
SpecStats == InitStatsSpec /\ [][NextStats]_vars

(* AIService with a quota of one request per minute: calls of the public
   operations, their completions, clearCache; the clock advances by the
   15 minutes of the shortest ttl *)
SvcDeltas == {900000}
InitSvcSpec ==
  /\ InitClock /\ InitRL /\ InitCache /\ InitSvc /\ InitLedger(NoStore) /\ InitConn("valid") /\ InitReq
  /\ limit = 1
NextSvc ==
  \/ \E p \in SvcPayloads : SvcCall(p)
  \/ \E i \in 1..MaxSvcReqs : SvcComplete(i)
  \/ clearCache
  \/ \E d \in SvcDeltas : Tick(d)
SpecSvc == InitSvcSpec /\ [][NextSvc]_vars

(* Event extraction through parseEvents: one text, submitted once or twice *)
NextParse ==
  \/ \E p \in ParsePayloads :
       /\ IF svcReqs = <<>> THEN TRUE ELSE svcReqs[1].payload = p
       /\ SvcCall(p)
  \/ \E i \in 1..MaxSvcReqs : SvcComplete(i)
  \/ \E d \in SvcDeltas : Tick(d)
SpecParse == InitSvcSpec /\ [][NextParse]_vars

(* The cache keys: calls whose payloads differ *)
NextKeys ==
  \/ \E p \in KeyPayloads : SvcCall(p)
  \/ \E i \in 1..MaxSvcReqs : SvcComplete(i)
  \/ \E d \in SvcDeltas : Tick(d)
SpecKeys == InitSvcSpec /\ [][NextKeys]_vars

(* The connection on its own, under every configuration: opens, closures,
   reconnect timers, disconnect() and reconnect() *)
InitConnSpec ==
  /\ InitClock /\ InitRL /\ InitCache /\ InitSvc /\ InitLedger(NoStore) /\ InitReq
  /\ limit = 1
  /\ \E cfg \in Configs : InitConn(cfg)
NextConn ==
  \/ \E i \in 1..MaxConnects : SocketOpen(i)
  \/ \E i \in 1..MaxConnects : SocketClose(i)
  \/ \E k \in 1..MaxConnects : TimerFire(k, MaxConnects)
  \/ disconnect
  \/ reconnect(MaxConnects)
SpecConn == InitConnSpec /\ [][NextConn]_vars

(* The same, with the connects that one full retry schedule takes *)
NextBackoff ==
  \/ \E i \in 1..MaxBackoffConnects : SocketOpen(i)
  \/ \E i \in 1..MaxBackoffConnects : SocketClose(i)
  \/ \E k \in 1..MaxBackoffConnects : TimerFire(k, MaxBackoffConnects)
  \/ disconnect
  \/ reconnect(MaxBackoffConnects)
SpecBackoff == InitConnSpec /\ [][NextBackoff]_vars

(* The connector with requests, under every configuration *)
UsagesTried == {NoUsage, [operation |-> "process_voice", tokensUsed |-> 6000, timestamp |-> 0,
                         timestampIs |-> "string"]}
NextClient ==
  \/ \E i \in 1..MaxClientConnects : SocketOpen(i)
  \/ \E i \in 1..MaxClientConnects : SocketClose(i)
  \/ \E k \in 1..MaxClientConnects : TimerFire(k, MaxClientConnects)
  \/ disconnect
  \/ reconnect(MaxClientConnects)
  \/ \E call \in ClientCalls : processText(call)
  \/ \E call \in ClientCalls : processBlob(call)
  \/ \E r \in 1..MaxClientReqs : Encoded(r)
  \/ \E r \in 1..MaxClientReqs : Timeout(r)
  \/ \E m \in 1..MaxClientReqs, u \in UsagesTried : Response(m, u)
SpecClient == InitConnSpec /\ [][NextClient]_vars

(* The connector's ledger with an agent at a valid URL: requests, responses
   with and without usage, token updates; request timeouts, which touch
   neither the ledger nor the messages, are left to SpecClient and SpecJobs *)
InitTokensSpec ==
  /\ InitClock /\ InitRL /\ InitCache /\ InitSvc /\ InitLedger(NoStore) /\ InitReq
  /\ limit = 1
  /\ InitConn("valid")
NextTokens ==
  \/ \E i \in 1..MaxClientConnects : SocketOpen(i)
  \/ \E call \in ClientCalls : processText(call)
  \/ \E call \in ClientCalls : processBlob(call)
  \/ \E r \in 1..MaxClientReqs : Encoded(r)
  \/ \E m \in 1..MaxClientReqs, u \in UsagesTried : Response(m, u)
  \/ \E i \in 1..MaxClientConnects, data \in TokenUpdates : handleTokenUpdate(i, data)
SpecTokens == InitTokensSpec /\ [][NextTokens]_vars

(* DataProcessor over the connector, with an agent at a valid URL *)
NextJobs ==
  \/ \E i \in 1..MaxClientConnects : SocketOpen(i)
  \/ \E call \in ClientCalls : JobText(call)
  \/ \E call \in ClientCalls : JobBlob(call)
  \/ \E r \in 1..MaxClientReqs : Encoded(r)
  \/ \E r \in 1..MaxClientReqs : Timeout(r)
  \/ \E m \in 1..MaxClientReqs : Response(m, NoUsage)
  \/ \E i \in 1..MaxClientConnects, data \in TokenUpdates : handleTokenUpdate(i, data)
  \/ \E j \in 1..MaxClientReqs, kind \in ResultKinds, callbackThrows \in BOOLEAN :
       JobSettle(j, kind, callbackThrows)
SpecJobs == InitTokensSpec /\ [][NextJobs]_vars

(* The message queue over the connection lifecycle, with an agent at a valid
   URL: processText calls while the sockets open, close and are retried *)
QueueCalls == {ClientCall("text", "parse_events", 15)}
NextQueue ==
  \/ \E i \in 1..MaxQueueConnects : SocketOpen(i)
  \/ \E i \in 1..MaxQueueConnects : SocketClose(i)
  \/ \E k \in 1..MaxQueueConnects : TimerFire(k, MaxQueueConnects)
  \/ disconnect
  \/ reconnect(MaxQueueConnects)
  \/ \E call \in QueueCalls : processText(call)
SpecQueue == InitTokensSpec /\ [][NextQueue]_vars

----------------------------------------------------------------------------
(* C1: on one RateLimiter with quota N, called at non-decreasing times, for
   every instant t the number of calls that returned true with a timestamp
   in the window (t - 60000, t] is at most N.  A window holds the most
   admitted calls when it ends at one of them, so t ranges over the admitted
   timestamps and over the last instant of the windows that start at them. *)
AdmittedIn(t) == Cardinality({i \in DOMAIN admitted : admitted[i] > t - Window /\ admitted[i] <= t})
C1_Instants == Range(admitted) \cup {x + Window - 1 : x \in Range(admitted)} \cup {now}
C1_QuotaInvariant == \A t \in C1_Instants : AdmittedIn(t) <= limit
\* a call was denied although the oldest admitted call is exactly 59999 ms old,
\* and a later call was admitted again
C1_Witness ==
  /\ Len(admitted) > limit
  /\ lastRL.ok
  /\ \E i \in DOMAIN admitted : admitted[i] = now - Window

(* C8: after set(k, v, ttl) and with no later set(k) or clear, get(k) returns
   v while now - createdAt <= ttl; a get(k) made when now - createdAt > ttl
   returns absent and leaves no entry for k, so that every later get(k) is
   absent too until another set(k). *)
C8_Expected(k) ==
  IF setLog[k] = NoSet THEN Absent
  ELSE IF now - setLog[k].at <= setLog[k].ttl THEN setLog[k].v
  ELSE Absent
C8_GetAfterSet ==
  [][\A k \in CacheKeys : CacheGet(k) =>
        /\ getResult'.value = C8_Expected(k)
        /\ (C8_Expected(k) = Absent => k \notin DOMAIN cache')]_vars
\* an entry was set, outlived its ttl, and the latest get found it absent and purged
C8_Witness ==
  \E k \in CacheKeys :
    /\ setLog[k] # NoSet
    /\ now - setLog[k].at > setLog[k].ttl
    /\ getResult.key = k /\ getResult.at = now /\ getResult.value = Absent
    /\ k \notin DOMAIN cache
\* an entry read at the very last instant of its ttl is still returned
C8_WitnessLive ==
  \E k \in CacheKeys :
    /\ setLog[k] # NoSet /\ setLog[k].ttl > 0
    /\ now - setLog[k].at = setLog[k].ttl
    /\ getResult.key = k /\ getResult.at = now /\ getResult.value = setLog[k].v

(* C9: on a ledger started from the default balance, after every
   recordTokenUsage balance.available = max(0, limit - sum of the tokensUsed
   of all the records so far). *)
C9_AvailableIsLimitMinusUsed ==
  freshStart =>
    tokenBalance.available =
      Max(0, tokenBalance.limit - SumTokens(tokenUsageHistory))
\* the records add up to more than the limit and available is floored at 0
C9_Witness ==
  /\ freshStart
  /\ SumTokens(tokenUsageHistory) > tokenBalance.limit
  /\ tokenBalance.available = 0

(* C10: the usage history held by the ledger never has more than 1000
   entries, so getTokenUsageHistory and getTokenUsageStats never see more. *)
C10_HistoryAtMost1000 == Len(tokenUsageHistory) <= HistoryKept

(* C5: when the rate limiter denies a makeRequest call, the call still gets a
   result: a failure (success = false) whose error carries the wait time, a
   positive number of seconds of at most one minute; neither the cache nor
   the operation handler is consulted for that call. *)
C5_DeniedIsAnswered ==
  \A i \in DOMAIN svcReqs :
    LET r == svcReqs[i]
    IN  (r.state # "rejected" /\ ~r.admitted) =>
          /\ r.state = "denied"
          /\ r.result.success = FALSE
          /\ r.result.error = "Rate limit exceeded"
          /\ r.result.wait \in 1..(Window \div MsPerSecond)
          /\ r.cacheReads = 0
          /\ ~r.dispatched
\* a call is denied although the cache holds a live entry for its key
C5_Witness ==
  \E i \in DOMAIN svcReqs :
    /\ svcReqs[i].state = "denied"
    /\ svcReqs[i].hadEntry

(* C6: every call of parseEvents, generateChatResponse, analyzeDocument,
   generateSuggestions and processVoiceNote, for every input text, settles by
   resolving to an AIResponse: none is rejected, not even when computing the
   cache key fails. *)
C6_NeverRejects ==
  \A i \in DOMAIN svcReqs : svcReqs[i].state # "rejected"

(* C7, as stated: of two calls of the same operation with identical input,
   the first completed successfully and the second admitted by the rate
   limiter and started before the TTL of the first's entry has elapsed, the
   second returns the data stored by the first without dispatching the
   handler. *)
C7_Pair(i, j) ==
  /\ i \in svcReqs[j].doneBefore
  /\ svcReqs[i].payload = svcReqs[j].payload
  /\ svcReqs[i].result.success
  /\ svcReqs[j].admitted
  /\ svcReqs[j].startAt - svcReqs[i].endAt <= TTLMinutes(svcReqs[i].payload.op) * MsPerMinute
C7_SecondGetsFirstsData ==
  \A i, j \in DOMAIN svcReqs :
    C7_Pair(i, j) =>
      /\ svcReqs[j].state = "hit"
      /\ ~svcReqs[j].dispatched
      /\ svcReqs[j].result.data = svcReqs[i].result.data

(* C7, amended: ... and clearCache was not called between the first's
   completion and the second's start; then the second returns, without
   dispatching the handler, the data the cache holds under its key: the data
   stored by the first, or by a call with the same key that completed after
   the first. *)
C7_SecondServedFromCache ==
  \A i, j \in DOMAIN svcReqs :
    (C7_Pair(i, j) /\ i \in svcReqs[j].uncleared) =>
      /\ svcReqs[j].state = "hit"
      /\ ~svcReqs[j].dispatched
      /\ svcReqs[j].result.success
      /\ LET k == svcReqs[j].servedBy
         IN  /\ k \in svcReqs[j].doneBefore
             /\ KeyOf[svcReqs[k].payload] = KeyOf[svcReqs[j].payload]
             /\ svcReqs[j].result.data = svcReqs[k].result.data
             /\ (k = i \/ svcReqs[k].endAt >= svcReqs[i].endAt)
\* the second call starts at the last instant of the ttl and is served the
\* first's data
C7_Witness ==
  \E i, j \in DOMAIN svcReqs :
    /\ C7_Pair(i, j) /\ i \in svcReqs[j].uncleared
    /\ svcReqs[j].startAt - svcReqs[i].endAt = TTLMinutes(svcReqs[i].payload.op) * MsPerMinute
    /\ svcReqs[j].state = "hit"
    /\ svcReqs[j].servedBy = i
----------------------------------------------------------------------------
(* C2: every processVoiceData, processDocument or processText call that
   passes the token-balance check is answered and never rejects, in every
   connection state: not connected, or connected with no response before the
   timeout.  Stated as the safety half: no call that passed the balance
   check has a rejected promise. *)
C2_PassedCallNeverRejects ==
  \A r \in DOMAIN creqs : creqs[r].state # "rejected"

(* C3: with VITE_AI_AGENT_WS_URL absent, a placeholder or malformed, the
   connector never attempts a connection, isConnectedToAgent() is false in
   every reachable state, and no processText call rejects. *)
Unconfigured == {"absent", "placeholder", "malformed"}
C3_UnconfiguredStaysLocal ==
  config \in Unconfigured =>
    /\ connectCalls = 0
    /\ sockets = <<>>
    /\ ~isConnected
    /\ \A r \in DOMAIN creqs :
         creqs[r].call.kind = "text" => creqs[r].state # "rejected"

(* C4: once maxReconnectAttempts reconnect attempts have failed in a row with
   no successful open in between, no reconnect timer is pending and no
   connection attempt is made until reconnect() is called; reconnect() sets
   the attempt counter to 0 and makes one connection attempt. *)
ReconnectStep == manualCalls' # manualCalls /\ connectCalls' # connectCalls
C4_ExhaustedUntilReconnect ==
  [][ /\ (exhausted /\ ~ReconnectStep) =>
           (timers = <<>> /\ timers' = <<>> /\ connectCalls' = connectCalls)
      /\ ReconnectStep =>
           (reconnectAttempts' = 0 /\ connectCalls' = connectCalls + 1) ]_vars

----------------------------------------------------------------------------
(* C11: in every step of the connector, balance.used never decreases, and
   the balance changes only when a usage record is appended to the history,
   by that record's tokensUsed. *)
C11_UsedGrowsOnlyByRecords ==
  [][ /\ tokenBalance'.used >= tokenBalance.used
      /\ tokenBalance' # tokenBalance =>
           /\ Len(tokenUsageHistory') = Len(tokenUsageHistory) + 1
           /\ tokenBalance'.used =
                tokenBalance.used + tokenUsageHistory'[Len(tokenUsageHistory')].tokensUsed
    ]_vars

----------------------------------------------------------------------------
(* C12: an inbound 'response' that carries a tokenUsage appends exactly that
   one usage record to the history and adds its tokensUsed to balance.used;
   a response without tokenUsage changes neither history nor balance. *)
C12_ResponseRecordsOnce ==
  [][ \A m \in DOMAIN wire :
        (~wire[m].answered /\ wire'[m].answered) =>
          IF wire'[m].usage # NoUsage
          THEN /\ tokenUsageHistory' = Append(tokenUsageHistory, wire'[m].usage)
               /\ tokenBalance'.used = tokenBalance.used + wire'[m].usage.tokensUsed
          ELSE /\ tokenUsageHistory' = tokenUsageHistory
               /\ tokenBalance' = tokenBalance
    ]_vars
C12_Witness ==
  /\ \E m \in DOMAIN wire : wire[m].answered /\ wire[m].usage # NoUsage
  /\ \E m \in DOMAIN wire : wire[m].answered /\ wire[m].usage = NoUsage
  /\ Len(tokenUsageHistory) = 1
  /\ tokenBalance.used = 6000

----------------------------------------------------------------------------
(* C13: every AIService request completed by the backend has recorded one
   usage entry of ceil(inputLength / 4) tokens: the ledger holds at least one
   entry per completed request and balance.used is at least the sum of
   their estimates. *)
RECURSIVE C13_Estimates(_)
C13_Estimates(n) ==
  IF n = 0 THEN 0
  ELSE C13_Estimates(n - 1)
       + (IF svcReqs[n].state = "done"
          THEN CeilDiv(Len(PromptOf(svcReqs[n].payload)), CharsPerToken) ELSE 0)
C13_GatewayRecordsUsage ==
  /\ Len(tokenUsageHistory) >= Cardinality({i \in DOMAIN svcReqs : svcReqs[i].state = "done"})
  /\ tokenBalance.used >= C13_Estimates(Len(svcReqs))

----------------------------------------------------------------------------
(* C14: a processVoiceData, processDocument or processText call fails with
   the insufficient-balance error exactly when balance.available is below 50,
   100 or ceil(text.length / 4); such a call sends and queues no message,
   registers no listener and leaves balance and history unchanged, then and
   later. *)
C14_Needed(call) ==
  CASE call.kind = "voice"    -> 50
    [] call.kind = "document" -> 100
    [] call.kind = "text"     -> (call.len + 3) \div 4
C14_Untouched(r) ==
  /\ \A k \in DOMAIN listeners' : listeners'[k] # r
  /\ \A k \in DOMAIN messageQueue' : messageQueue'[k] # r
  /\ \A k \in DOMAIN wire' : wire'[k].msg # r
C14_InsufficientBalance ==
  [][ /\ Len(creqs') = Len(creqs) + 1 =>
           LET r == Len(creqs')
           IN  /\ creqs'[r].state = "insufficient"
                    <=> tokenBalance.available < C14_Needed(creqs'[r].call)
               /\ creqs'[r].state = "insufficient" =>
                    /\ tokenBalance' = tokenBalance
                    /\ tokenUsageHistory' = tokenUsageHistory
                    /\ listeners' = listeners
                    /\ messageQueue' = messageQueue
                    /\ wire' = wire
      /\ \A r \in DOMAIN creqs' :
           creqs'[r].state = "insufficient" => C14_Untouched(r)
    ]_vars
C14_Witness ==
  /\ tokenBalance.available = 50
  /\ Len(creqs) = 2
  /\ creqs[1].state = "insufficient" /\ creqs[1].call.kind = "text"
  /\ creqs[2].state \in {"encoding", "pending"} /\ creqs[2].call.kind = "voice"

----------------------------------------------------------------------------
(* C15: every ProcessingJob is given the statuses pending, processing and
   then at most one of completed or error, each once and in this order; a
   job that is completed or in error is given no further status. *)
C15_JobLifecycle ==
  \A j \in DOMAIN jobs :
    jobs[j].statuses \in { <<"pending", "processing">>,
                           <<"pending", "processing", "completed">>,
                           <<"pending", "processing", "error">> }

----------------------------------------------------------------------------
(* C16 as stated, with "containing" read as the text having the keyword as a
   substring: a text containing both "field trip" and "museum" is answered
   with a non-empty list holding an event of type 'event'; a text containing
   none of the six keywords is answered with success and an empty list. *)
C16_Keywords == {KwFieldTrip, KwMuseum, KwConference, KwTeacher, KwSoccer, KwPractice}
C16_Answered == {i \in DOMAIN svcReqs : svcReqs[i].state = "done"}
C16_Events(i) == svcReqs[i].result.data.events
C16_HasEventOfTypeEvent(i) ==
  \E k \in DOMAIN C16_Events(i) : ParsedEventOf(C16_Events(i)[k]).type = "event"
C16_ExtractionAsStated ==
  \A i \in C16_Answered :
    LET text == svcReqs[i].payload.text
    IN  /\ (includes(text, KwFieldTrip) /\ includes(text, KwMuseum)) =>
             (C16_Events(i) # <<>> /\ C16_HasEventOfTypeEvent(i))
        /\ (\A kw \in C16_Keywords : ~includes(text, kw)) =>
             (svcReqs[i].result.success /\ C16_Events(i) = <<>>)
(* C16, amended: keywords are looked for without regard to letter case.  A
   text containing "field trip" and "museum" in any letter case is answered
   with a non-empty list holding an event of type 'event'; a text containing
   none of the six keywords in any letter case is answered with success and
   an empty list. *)
C16_FoldCase(text) == [k \in DOMAIN text |->
                         IF text[k] >= 65 /\ text[k] <= 90 THEN text[k] + 32 ELSE text[k]]
C16_Extraction ==
  \A i \in C16_Answered :
    LET text == C16_FoldCase(svcReqs[i].payload.text)
    IN  /\ (includes(text, KwFieldTrip) /\ includes(text, KwMuseum)) =>
             (C16_Events(i) # <<>> /\ C16_HasEventOfTypeEvent(i))
        /\ (\A kw \in C16_Keywords : ~includes(text, kw)) =>
             (svcReqs[i].result.success /\ C16_Events(i) = <<>>)
C16_Witness ==
  /\ \E i \in C16_Answered :
       /\ includes(svcReqs[i].payload.text, KwFieldTrip)
       /\ includes(svcReqs[i].payload.text, KwMuseum)
       /\ C16_Events(i) = <<"Science Museum Field Trip">>
  /\ Len(svcReqs) = 1
C16_WitnessNone ==
  \E i \in C16_Answered :
    /\ svcReqs[i].payload.text = WordPiano \o <<32>> \o WordRecital
    /\ C16_Events(i) = <<>>

(* C17: parseEvents("Jake has a piano recital this Friday at 7 PM at the
   music academy"), once answered, has returned at least one event whose
   title mentions "piano", whose location mentions "music academy" and whose
   confidence is above 0.5. *)
C17_PianoRecital ==
  \A i \in DOMAIN svcReqs :
    (svcReqs[i].state = "done" /\ svcReqs[i].payload.text = TxtPiano) =>
      \E k \in DOMAIN svcReqs[i].result.data.events :
        LET e == ParsedEventOf(svcReqs[i].result.data.events[k])
        IN  /\ includes(toLowerCase(e.title), WordPiano)
            /\ includes(toLowerCase(e.location), KwMusicAcademy)
            /\ e.confidence > 50

----------------------------------------------------------------------------
(* C18: when the stored ledger cannot be parsed, or parses to something
   without balance or without history, the new connector starts with the
   default balance (available = limit = 10000, used = 0) and an empty
   history. *)
C18_CorruptStoreGivesDefaults ==
  (calls = 0 /\ stored.item \notin {"absent", "json"}) =>
    /\ tokenBalance = [available |-> 10000, used |-> 0, limit |-> 10000]
    /\ tokenUsageHistory = <<>>

----------------------------------------------------------------------------
(* C19: getTokenUsageHistory(limit), for a limit of at least 1, returns the
   latest `limit` usage entries most recent first: the entries in the
   reverse of the order they were recorded in. *)
C19_Reverse(s) == [k \in 1..Len(s) |-> s[Len(s) + 1 - k]]
C19_MostRecentFirst ==
  (usageView.asked /\ usageView.limit >= 1) =>
    usageView.entries =
      C19_Reverse(LastN(SubSeq(tokenUsageHistory, 1, usageView.recorded), usageView.limit))

----------------------------------------------------------------------------
(* C20: getTimeUntilNextRequest() returns 0 exactly when a canMakeRequest()
   call at the same instant would be admitted; otherwise it returns
   60000 - (now - oldest retained timestamp), which is positive, and a
   canMakeRequest() call that many milliseconds later, with no call in
   between, is admitted.  In particular quota + 1 calls within one second
   leave the last one denied and the wait positive. *)
C20_WouldAdmit(t) ==
  Len(SeqFilter(requests, {x \in Range(requests) : x > t - 60000})) < limit
C20_WaitIsExact ==
  lastWait.asked =>
    /\ lastWait.wait = 0 <=> C20_WouldAdmit(lastWait.at)
    /\ lastWait.wait # 0 =>
         /\ lastWait.wait > 0
         /\ \E oldest \in Range(requests) :
              /\ \A x \in Range(requests) : oldest <= x
              /\ oldest > lastWait.at - 60000
              /\ lastWait.wait = 60000 - (lastWait.at - oldest)
         /\ C20_WouldAdmit(lastWait.at + lastWait.wait)
\* quota + 1 calls within one second, the last denied, and a positive wait
\* asked for at a later instant
C20_Witness ==
  /\ lastWait.asked /\ lastWait.wait > 0 /\ lastWait.wait < 60000
  /\ ~lastRL.ok /\ lastRL.at < 1000 /\ lastWait.at > lastRL.at
  /\ Len(requests) = limit /\ limit = 2
  /\ requests[1] # requests[2]

----------------------------------------------------------------------------
(* C21: messages queued by sendMessage while the connector is not connected
   are each sent exactly once when the connection next opens, in the order
   they were enqueued and before any message submitted after the open; none
   is lost or duplicated.  As a property of every step: the queue changes
   only by one message being appended (nothing is sent then) or by the whole
   queue being handed to the socket in order; a socket's open leaves the
   queue empty; a message is sent directly only when the queue is empty. *)
C21_Flushed ==
  /\ messageQueue' = <<>>
  /\ Len(wire') = Len(wire) + Len(messageQueue)
  /\ \A k \in DOMAIN wire : wire'[k].msg = wire[k].msg
  /\ \A k \in DOMAIN messageQueue : wire'[Len(wire) + k].msg = messageQueue[k]
C21_QueuedSentOnceInOrder ==
  [][ /\ messageQueue' # messageQueue =>
           \/ /\ Len(messageQueue') = Len(messageQueue) + 1
              /\ SubSeq(messageQueue', 1, Len(messageQueue)) = messageQueue
              /\ wire' = wire
           \/ C21_Flushed
      /\ (\E i \in DOMAIN sockets : sockets[i].st # "open" /\ sockets'[i].st = "open")
           => C21_Flushed
      /\ (wire' # wire /\ messageQueue' = messageQueue) => messageQueue = <<>> ]_vars

----------------------------------------------------------------------------
(* C22: the k-th closure or failed connect since the last successful open or
   manual reconnect (k = 1..5) schedules exactly one retry, with delay
   reconnectDelay * 2^(k-1): 1000, 2000, 4000, 8000, 16000 ms; an open
   resets the count, so the closure after it is the first again; no other
   step schedules a retry. *)
C22_Closure ==
  \E i \in DOMAIN sockets : sockets[i].st # "closed" /\ sockets'[i].st = "closed"
C22_FailedConnect == config = "malformed" /\ connectCalls' = connectCalls + 1
C22_TimerFired == connectCalls' = connectCalls + 1 /\ manualCalls' = manualCalls
C22_Opened ==
  \E i \in DOMAIN sockets : sockets[i].st # "open" /\ sockets'[i].st = "open"
C22_Delays == <<1000, 2000, 4000, 8000, 16000>>
C22_BackoffSchedule ==
  [][ /\ ((C22_Closure \/ C22_FailedConnect) /\ retries' <= Len(C22_Delays)) =>
           /\ Len(timers') = Len(timers) + (IF C22_TimerFired THEN 0 ELSE 1)
           /\ timers'[Len(timers')] = C22_Delays[retries']
           /\ timers'[Len(timers')] = ReconnectDelay * Pow2(retries' - 1)
      /\ ~(C22_Closure \/ C22_FailedConnect) => Len(timers') <= Len(timers)
      /\ C22_Opened => retries' = 0
      /\ (C22_Closure /\ retries = 0) => timers'[Len(timers')] = ReconnectDelay ]_vars
\* a socket has opened and five closures or failed connects followed: the
\* fifth retry is pending
C22_Witness ==
  /\ retries = 5
  /\ timers # <<>> /\ timers[Len(timers)] = 16000
  /\ \E i \in DOMAIN sockets : sockets[i].opened

----------------------------------------------------------------------------
(* C23: getTokenUsageStats().averagePerDay is
   totalUsed / max(1, ceil((now - earliestTimestamp) / 1 day)) for every
   non-empty history, also when the earliest record was written at the
   current instant (divisor 1), and 0 for an empty history. *)
C23_Earliest == tokenUsageHistory[1].timestamp
C23_AveragePerDay ==
  statsView.asked =>
    /\ ~statsView.result.threw
    /\ statsView.recorded = 0 => statsView.result.averagePerDay.num = 0
    /\ statsView.recorded > 0 =>
         /\ statsView.result.averagePerDay.num =
              SumTokens(SubSeq(tokenUsageHistory, 1, statsView.recorded))
         /\ statsView.result.averagePerDay.den =
              Max(1, CeilDiv(statsView.at - C23_Earliest, MsPerDay))

----------------------------------------------------------------------------
(* C24: after every ledger mutation the storage holds the current balance
   and the most recent (at most 1000) history entries in order, and a
   connector constructed from that storage starts with the same balance and
   history; getTokenBalance, getTokenUsageHistory and getTokenUsageStats
   return, without error, the same values on both. *)
C24_StorageHolds ==
  /\ stored.item = "json"
  /\ stored.balance = tokenBalance
  /\ stored.history = LastN(tokenUsageHistory, HistoryKept)
C24_SameStart ==
  /\ LoadBalance(stored) = tokenBalance
  /\ LoadHistory(stored) = tokenUsageHistory
C24_SameAnswers ==
  /\ \A n \in HistoryLimits :
       GetTokenUsageHistory(LoadHistory(stored), n) = GetTokenUsageHistory(tokenUsageHistory, n)
  /\ ~GetTokenUsageStats(tokenUsageHistory, now).threw
  /\ ~GetTokenUsageStats(LoadHistory(stored), now).threw
  /\ GetTokenUsageStats(LoadHistory(stored), now) = GetTokenUsageStats(tokenUsageHistory, now)
C24_PersistLoadRoundTrip ==
  calls > 0 => (C24_StorageHolds /\ C24_SameStart /\ C24_SameAnswers)

----------------------------------------------------------------------------
(* C25: a pending request is resolved only with the data of the response
   that answers that request, and one inbound response resolves at most one
   pending request, for every interleaving of requests in flight. *)
C25_Resolved(r) == creqs[r].state = "pending" /\ creqs'[r].state = "resolved"
C25_ResponseCorrelation ==
  [][ /\ \A r \in DOMAIN creqs : C25_Resolved(r) => creqs'[r].data = r
      /\ Cardinality({r \in DOMAIN creqs : C25_Resolved(r)}) <= 1 ]_vars

----------------------------------------------------------------------------
(* C26: no response is lost to a stale listener: when the response to a
   request arrives while that request is pending, its timeout not fired, the
   request is resolved by this response, also when listeners of earlier
   requests for the same operation that timed out are still registered. *)
C26_Answers(m) == ~wire[m].answered /\ wire'[m].answered
C26_NoResponseLost ==
  [][ \A m \in DOMAIN wire :
        (C26_Answers(m) /\ creqs[wire[m].msg].state = "pending" /\ creqs[wire[m].msg].timer)
          => (creqs'[wire[m].msg].state = "resolved" /\ creqs'[wire[m].msg].data = wire[m].msg) ]_vars

----------------------------------------------------------------------------
(* C27: after disconnect() the connector stays disconnected: until
   reconnect() is called no connection attempt is made and no reconnect
   timer is scheduled, also when the close event of the socket that
   disconnect() closed is delivered afterwards.  this.ws is null only after
   disconnect() (connect() assigns it, unless new WebSocket throws on a
   malformed URL), which is how the steps after disconnect() are told. *)
C27_Disconnected == ws = 0 /\ config # "malformed"
C27_StaysDisconnected ==
  [][ (C27_Disconnected /\ ~ReconnectStep) =>
        /\ connectCalls' = connectCalls
        /\ Len(timers') <= Len(timers)
        /\ ~isConnected' ]_vars

----------------------------------------------------------------------------
(* C28: in every reachable state the connector owns at most one socket that
   is open or opening and at most one pending reconnect timer, and
   isConnectedToAgent() is true exactly when the connector's current socket
   is open; this includes the states after reconnect() in which the close
   event of the previous socket is still undelivered. *)
C28_Live == {i \in DOMAIN sockets : sockets[i].st \in {"connecting", "open"}}
C28_OneSocketOneTimer ==
  /\ Cardinality(C28_Live) <= 1
  /\ Len(timers) <= 1
  /\ isConnected <=> (ws # 0 /\ sockets[ws].st = "open")

----------------------------------------------------------------------------
(* C29: an AIService request is answered from the cache only if the cached
   entry was produced by an earlier request with the same operation and the
   same full payload: requests whose payloads differ (texts that share their
   first 24 characters, one chat message with two contexts) never receive
   each other's cached result. *)
C29_SamePayload(p, q) ==
  /\ OperationOf(p.op) = OperationOf(q.op)
  /\ p.text = q.text
  /\ p.extra = q.extra
C29_CacheHitsOwnPayload ==
  \A j \in DOMAIN svcReqs :
    svcReqs[j].state = "hit" =>
      /\ svcReqs[j].servedBy \in DOMAIN svcReqs
      /\ C29_SamePayload(svcReqs[svcReqs[j].servedBy].payload, svcReqs[j].payload)

----------------------------------------------------------------------------
(* C30: token gating prevents over-consumption: in every reachable state
   balance.used <= balance.limit, for every interleaving of calls admitted
   by canMakeRequest and of the responses that report their usage. *)
C30_UsedWithinLimit == tokenBalance.used <= tokenBalance.limit

====
